---------------------------- MODULE Spec2Model ----------------------------
(***************************************************************************)
(* A model of the recipe chatbot (src/chatbot.py): the conversational      *)
(* entry point RecipeChatbot.get_response with its pipeline stages, the    *)
(* conversation memory it shares with the retrieval chain, clear_memory,   *)
(* and the filtered search entry point search_recipes; the document store  *)
(* (src/chroma_embeding.py: add_recipe, delete_collection) and the chat    *)
(* and clear requests of the web service (src/app.py).                     *)
(*                                                                         *)
(* Text is modelled as a sequence of one-character strings, so that        *)
(* lower(), strip(), the substring test `w in s` and concatenation are     *)
(* computed as Python computes them.                                       *)
(***************************************************************************)
EXTENDS Naturals, Sequences, FiniteSets, TLC

(***************************************************************************)
(* Bounds of the model.                                                    *)
(***************************************************************************)
\* Entry-point calls in one run of the conversation (Spec).
MaxCalls == 3
\* Entry-point calls in one run of the memory window (SpecWindow).
MaxWindowCalls == 9
\* Entry-point calls in one run of the whole service (SpecService).
MaxServiceCalls == 2
\* Documents the store hands back to search_recipes.
MaxHits == 2
\* Longest list of retrieved passages in the specification of long lists.
MaxPassages == 7
\* Longest list of documents the similarity search returns (SpecSearch).
MaxLongHits == 12
\* Passages the retrieval chain hands back in result["source_documents"].
MaxDocs == 2
\* Calls on the document manager in one run (SpecStore).
MaxStoreCalls == 4
\* Requests to the web service in one run (SpecApp).
MaxAppCalls == 3

(***************************************************************************)
(* Text helpers (Python str semantics).                                    *)
(***************************************************************************)
UpperCase ==
  <<"A", "B", "C", "D", "E", "F", "G", "H", "I", "J", "K", "L", "M",
    "N", "O", "P", "Q", "R", "S", "T", "U", "V", "W", "X", "Y", "Z">>

LowerCase ==
  <<"a", "b", "c", "d", "e", "f", "g", "h", "i", "j", "k", "l", "m",
    "n", "o", "p", "q", "r", "s", "t", "u", "v", "w", "x", "y", "z">>

\* str.lower() on one character.
LowerChar(c) ==
  IF \E i \in 1..26 : UpperCase[i] = c
    THEN LowerCase[CHOOSE i \in 1..26 : UpperCase[i] = c]
    ELSE c

\* str.lower()
Lower(s) == [i \in 1..Len(s) |-> LowerChar(s[i])]

Whitespace == {" ", "\t", "\n"}

\* str.strip(): leading and trailing whitespace removed.
RECURSIVE LStrip(_)
LStrip(s) ==
  IF s # <<>> /\ Head(s) \in Whitespace THEN LStrip(Tail(s)) ELSE s

RECURSIVE RStrip(_)
RStrip(s) ==
  IF s # <<>> /\ s[Len(s)] \in Whitespace
    THEN RStrip(SubSeq(s, 1, Len(s) - 1))
    ELSE s

Strip(s) == RStrip(LStrip(s))

\* The Python test `w in s` on strings: w occurs in s as a substring.
Contains(s, w) ==
  \E i \in 1..(Len(s) - Len(w) + 1) : SubSeq(s, i, i + Len(w) - 1) = w

\* any(word in s for word in words)
AnyIn(words, s) == \E k \in 1..Len(words) : Contains(s, words[k])

\* ' '.join(parts)
RECURSIVE Join(_)
Join(parts) ==
  IF parts = <<>> THEN <<>>
  ELSE IF Len(parts) = 1 THEN parts[1]
  ELSE parts[1] \o <<" ">> \o Join(Tail(parts))

\* Number of occurrences of w in s (overlaps counted).
Occurrences(s, w) ==
  Cardinality({i \in 1..(Len(s) - Len(w) + 1) : SubSeq(s, i, i + Len(w) - 1) = w})

\* s[:n]
Take(s, n) == SubSeq(s, 1, IF Len(s) < n THEN Len(s) ELSE n)

(***************************************************************************)
(* Signal words and keywords of _enhance_user_query and                    *)
(* _generate_follow_up_suggestions.                                        *)
(***************************************************************************)
W_have == <<"h", "a", "v", "e">>
W_with == <<"w", "i", "t", "h">>
W_got == <<"g", "o", "t">>
W_quick == <<"q", "u", "i", "c", "k">>
W_fast == <<"f", "a", "s", "t">>
W_easy == <<"e", "a", "s", "y">>

K_recipe_ingredients ==
  <<"r", "e", "c", "i", "p", "e", " ",
    "i", "n", "g", "r", "e", "d", "i", "e", "n", "t", "s">>
K_cooking_time == <<"c", "o", "o", "k", "i", "n", "g", " ", "t", "i", "m", "e">>
K_dietary == <<"d", "i", "e", "t", "a", "r", "y">>
K_cuisine == <<"c", "u", "i", "s", "i", "n", "e">>

IngredientWords == <<W_have, <<"u", "s", "i", "n", "g">>, W_with, W_got>>
TimeWords ==
  << W_quick, W_fast, W_easy,
     <<"3", "0", " ", "m", "i", "n">>,
     <<"h", "o", "u", "r">> >>
DietaryWords ==
  << <<"v", "e", "g", "e", "t", "a", "r", "i", "a", "n">>,
     <<"v", "e", "g", "a", "n">>,
     <<"g", "l", "u", "t", "e", "n", "-", "f", "r", "e", "e">>,
     <<"l", "o", "w", "-", "f", "a", "t">> >>
cuisines ==
  << <<"i", "t", "a", "l", "i", "a", "n">>,
     <<"m", "e", "x", "i", "c", "a", "n">>,
     <<"a", "s", "i", "a", "n">>,
     <<"i", "n", "d", "i", "a", "n">>,
     <<"a", "m", "e", "r", "i", "c", "a", "n">>,
     <<"c", "h", "i", "n", "e", "s", "e">>,
     <<"t", "h", "a", "i">> >>

(***************************************************************************)
(* RecipeChatbot._enhance_user_query                                       *)
(***************************************************************************)
\* Variant: the cuisine test is made first.
enhancements_cuisine_first(query) ==
  (IF AnyIn(cuisines, query) THEN <<K_cuisine>> ELSE <<>>)
  \o (IF AnyIn(IngredientWords, query) THEN <<K_recipe_ingredients>> ELSE <<>>)
  \o (IF AnyIn(TimeWords, query) THEN <<K_cooking_time>> ELSE <<>>)
  \o (IF AnyIn(DietaryWords, query) THEN <<K_dietary>> ELSE <<>>)

\* The list `enhancements` built from the lower-cased query.
enhancements(query) ==
  (IF AnyIn(IngredientWords, query) THEN <<K_recipe_ingredients>> ELSE <<>>)
  \o (IF AnyIn(TimeWords, query) THEN <<K_cooking_time>> ELSE <<>>)
  \o (IF AnyIn(DietaryWords, query) THEN <<K_dietary>> ELSE <<>>)
  \o (IF AnyIn(cuisines, query) THEN <<K_cuisine>> ELSE <<>>)

\* Variant: the enhancements are appended to the lower-cased query.
_enhance_lowered_query(user_in) ==
  LET query == Lower(user_in)
      enh == enhancements(query)
  IN  IF enh # <<>> THEN query \o <<" ">> \o Join(enh) ELSE query

_enhance_user_query(user_in) ==
  LET query == Lower(user_in)
      enh == enhancements(query)
  IN  IF enh # <<>> THEN user_in \o <<" ">> \o Join(enh) ELSE user_in

(***************************************************************************)
(* Retrieved passages (langchain Document: metadata, page_content).        *)
(* A metadata mapping is a function from the keys present to their values; *)
(* is_mapping = FALSE stands for a passage whose metadata is not a mapping *)
(* (every metadata.get on it raises).  page_content is kept as an          *)
(* identifier of the text and its length in characters.                    *)
(***************************************************************************)

\* dict.get(key, default)
Get(md, key, default) == IF key \in DOMAIN md THEN md[key] ELSE default

P_ApplePie ==
  [is_mapping |-> TRUE,
   metadata |-> [recipe_name |-> "Apple Pie", source |-> "cookbook",
                 rating |-> "4.5", total_time_minutes |-> "50",
                 image_url |-> "pie.jpg"],
   page_content |-> [text |-> "apple pie text", len |-> 40]]

P_Dal ==
  [is_mapping |-> TRUE,
   metadata |-> [recipe_name |-> "Dal", cook_time_minutes |-> "25",
                 difficulty_level |-> "Easy"],
   page_content |-> [text |-> "dal text", len |-> 200]]

\* As stored by RecipeDocumentManager.add_recipe: the name is under "name".
P_Stored ==
  [is_mapping |-> TRUE,
   metadata |-> [name |-> "Apple Pie", rating |-> "4.5", url |-> "",
                 category |-> "Dessert", image_url |-> ""],
   page_content |-> [text |-> "stored text", len |-> 150]]

P_StoredCake ==
  [is_mapping |-> TRUE,
   metadata |-> [name |-> "Cake", rating |-> "4.0", url |-> "",
                 category |-> "Dessert", image_url |-> ""],
   page_content |-> [text |-> "stored cake text", len |-> 120]]

\* Two passages whose source and recipe name differ and read the same once
\* joined by "_".
P_Blog ==
  [is_mapping |-> TRUE,
   metadata |-> [source |-> "blog", recipe_name |-> "best_Dal"],
   page_content |-> [text |-> "blog text", len |-> 90]]

P_BlogBest ==
  [is_mapping |-> TRUE,
   metadata |-> [source |-> "blog_best", recipe_name |-> "Dal"],
   page_content |-> [text |-> "blog best text", len |-> 60]]

P_Malformed ==
  [is_mapping |-> FALSE,
   metadata |-> <<>>,
   page_content |-> [text |-> "odd text", len |-> 10]]

Passages == {P_ApplePie, P_Dal, P_Stored, P_Malformed}

\* Every list of at most n passages.
RECURSIVE ListsUpTo(_, _)
ListsUpTo(S, n) ==
  IF n = 0 THEN {<<>>}
  ELSE LET shorter == ListsUpTo(S, n - 1)
       IN  shorter \cup {Append(l, x) : l \in {m \in shorter : Len(m) = n - 1}, x \in S}

DocLists == ListsUpTo(Passages, MaxDocs)

(***************************************************************************)
(* RecipeChatbot._extract_recipe_info                                      *)
(***************************************************************************)
\* source_docs[:6]
ExtractLimit == 6

None == "None"

recipe_info_of(doc, recipe_name) ==
  LET metadata == doc.metadata
  IN  [name |-> recipe_name,
       rating |-> Get(metadata, "rating", "Not rated"),
       prep_time |-> Get(metadata, "prep_time_minutes", None),
       cook_time |-> Get(metadata, "cook_time_minutes", None),
       total_time |-> Get(metadata, "total_time_minutes", None),
       servings |-> Get(metadata, "servings", None),
       difficulty |-> Get(metadata, "difficulty_level", "Unknown"),
       cuisine |-> Get(metadata, "cuisine_type", "International"),
       category |-> Get(metadata, "main_category", "General"),
       source_url |-> Get(metadata, "source_url", None),
       instructions |-> doc.page_content,
       image_url |-> Get(metadata, "image_url", "")]

\* One turn of the loop body: the state is <<recipes, seen_recipes>>.
extract_step(acc, doc) ==
  IF ~doc.is_mapping
    THEN acc                      \* metadata.get raises: logged, continue
    ELSE LET recipe_name ==
               Get(doc.metadata, "recipe_name",
                   Get(doc.metadata, "title", "Unknown Recipe"))
         IN  IF recipe_name \in acc[2]
               THEN acc           \* duplicate: continue
               ELSE <<Append(acc[1], recipe_info_of(doc, recipe_name)),
                      acc[2] \cup {recipe_name}>>

RECURSIVE extract_loop(_, _)
extract_loop(acc, docs) ==
  IF docs = <<>> THEN acc
  ELSE extract_loop(extract_step(acc, Head(docs)), Tail(docs))

\* Variant: the loop runs over every passage, without the [:6] slice.
_extract_recipe_info_uncapped(docs) == extract_loop(<<<<>>, {}>>, docs)[1]

_extract_recipe_info(docs) ==
  extract_loop(<<<<>>, {}>>, Take(docs, ExtractLimit))[1]

(***************************************************************************)
(* RecipeChatbot._process_sources                                          *)
(***************************************************************************)
SourceLimit == 5
PreviewLimit == 150

\* doc.page_content[:150] + "..." if len(doc.page_content) > 150 else doc.page_content
\* Variant: a content of exactly 150 characters is cut as well.
content_preview_inclusive(page_content) ==
  IF page_content.len >= PreviewLimit
    THEN [text |-> page_content.text, chars |-> PreviewLimit + 3, ellipsis |-> TRUE]
    ELSE [text |-> page_content.text, chars |-> page_content.len, ellipsis |-> FALSE]

content_preview(page_content) ==
  IF page_content.len > PreviewLimit
    THEN [text |-> page_content.text, chars |-> PreviewLimit + 3, ellipsis |-> TRUE]
    ELSE [text |-> page_content.text, chars |-> page_content.len, ellipsis |-> FALSE]

\* doc.metadata.get is called outside any try: a passage whose metadata is
\* not a mapping raises out of _process_sources.
process_sources_raises(docs) == \E i \in 1..Len(docs) : ~docs[i].is_mapping

\* One turn of the loop body: the state is <<unique_sources, seen_sources>>.
sources_step(acc, doc) ==
  LET source == Get(doc.metadata, "source", "Recipe Database")
      recipe_name == Get(doc.metadata, "recipe_name", "Unknown Recipe")
      source_key == source \o "_" \o recipe_name    \* f"{source}_{recipe_name}"
  IN  IF source_key \notin acc[2]
        THEN <<Append(acc[1],
                      [source |-> source, recipe_name |-> recipe_name,
                       content_preview |-> content_preview(doc.page_content)]),
               acc[2] \cup {source_key}>>
        ELSE acc

RECURSIVE sources_loop(_, _)
sources_loop(acc, docs) ==
  IF docs = <<>> THEN acc
  ELSE sources_loop(sources_step(acc, Head(docs)), Tail(docs))

_process_sources(docs) == Take(sources_loop(<<<<>>, {}>>, docs)[1], SourceLimit)

(***************************************************************************)
(* RecipeChatbot._generate_follow_up_suggestions                           *)
(* A suggestion is its fixed text and, for the one f-string, the recipe    *)
(* name substituted into it.                                               *)
(***************************************************************************)
Sugg(text) == [text |-> text, arg |-> ""]

IngredientSuggestions ==
  <<Sugg("Show me the full recipe for the first suggestion"),
    Sugg("What can I substitute if I'm missing an ingredient?"),
    Sugg("How long will this take to prepare?")>>

TimeSuggestions ==
  <<Sugg("Show me recipes under 30 minutes"),
    Sugg("What are some meal prep options?"),
    Sugg("Give me beginner-friendly recipes")>>

ComparisonSuggestions(recipes) ==
  <<[text |-> "Tell me more about ", arg |-> recipes[1].name],
    Sugg("Compare the difficulty of these recipes"),
    Sugg("Which recipe has the highest rating?")>>

GenericSuggestions ==
  <<Sugg("Show me ingredients and instructions"),
    Sugg("What cuisine type would you recommend?"),
    Sugg("Give me cooking tips for beginners")>>

SuggestionCount == 3

\* The if / elif / elif chain on the query type.
suggestion_branch(query, recipes) ==
  IF \/ Contains(query, <<"i", "n", "g", "r", "e", "d", "i", "e", "n", "t">>)
     \/ Contains(query, W_have)
    THEN IngredientSuggestions
  ELSE IF AnyIn(<<W_quick, W_fast, W_easy>>, query)
    THEN TimeSuggestions
  ELSE IF Len(recipes) > 1
    THEN ComparisonSuggestions(recipes)
  ELSE <<>>

\* if len(suggestions) < 3: suggestions.extend(generic)
\* Variant: the generic suggestions are never added.
suggestion_pad_skipped(suggestions) == suggestions

suggestion_pad(suggestions) ==
  IF Len(suggestions) < SuggestionCount
    THEN suggestions \o GenericSuggestions
    ELSE suggestions

_generate_follow_up_suggestions(user_in, recipes) ==
  Take(suggestion_pad(suggestion_branch(Lower(user_in), recipes)), SuggestionCount)

(***************************************************************************)
(* RecipeChatbot._generate_recipe_description and _format_response         *)
(* The formatted answer is the generative answer followed by the summary   *)
(* block: its "Found n recipes" header and one entry per listed recipe.    *)
(***************************************************************************)
SummaryLimit == 3

\* Python truthiness of an optional metadata value.
Truthy(v) == v # None /\ v # ""

\* The llm.invoke call either answers or raises; on an exception the
\* templated one-line description is returned instead.
\* Variant: the except block returns an empty description.
_generate_recipe_description_blank(recipe, llm_ok) ==
  IF llm_ok
    THEN [kind |-> "generated", cuisine |-> "", category |-> "", difficulty |-> ""]
    ELSE [kind |-> "fallback", cuisine |-> "", category |-> "", difficulty |-> ""]

_generate_recipe_description(recipe, llm_ok) ==
  IF llm_ok
    THEN [kind |-> "generated", cuisine |-> "", category |-> "", difficulty |-> ""]
    ELSE [kind |-> "fallback", cuisine |-> recipe.cuisine,
          category |-> recipe.category, difficulty |-> recipe.difficulty]

summary_entry(i, recipe, llm_ok) ==
  [index |-> i,
   name |-> recipe.name,
   difficulty |-> recipe.difficulty,
   time_info |-> IF Truthy(recipe.total_time) THEN recipe.total_time
                 ELSE IF Truthy(recipe.cook_time) THEN recipe.cook_time
                 ELSE "",
   rating_info |-> IF Truthy(recipe.rating) /\ recipe.rating # "Not rated"
                     THEN recipe.rating ELSE "",
   image |-> recipe.image_url,
   description |-> _generate_recipe_description(recipe, llm_ok)]

\* Variant: the summary block is appended for a single recipe as well.
_format_response_single(ans, recipes, llm_failed) ==
  IF recipes = <<>> THEN [base |-> ans, found |-> 0, entries |-> <<>>]
  ELSE [base |-> ans,
        found |-> Len(recipes),
        entries |-> [i \in 1..Len(Take(recipes, SummaryLimit)) |->
                       summary_entry(i, recipes[i], i \notin llm_failed)]]

\* llm_failed: the positions (1-based) whose description call raises.
_format_response(ans, recipes, llm_failed) ==
  IF recipes = <<>> THEN [base |-> ans, found |-> 0, entries |-> <<>>]
  ELSE IF Len(recipes) > 1
    THEN [base |-> ans,
          found |-> Len(recipes),
          entries |-> [i \in 1..Len(Take(recipes, SummaryLimit)) |->
                         summary_entry(i, recipes[i], i \notin llm_failed)]]
  ELSE [base |-> ans, found |-> 0, entries |-> <<>>]

\* Number of description calls _format_response makes.
description_calls(recipes) ==
  IF Len(recipes) > 1 THEN Len(Take(recipes, SummaryLimit)) ELSE 0

(***************************************************************************)
(* Conversation memory: ConversationBufferWindowMemory(k=8) handed to the  *)
(* ConversationalRetrievalChain.  The chain loads the window before it     *)
(* runs and saves the exchange when it has produced its answer.  A message *)
(* is kept as its type and the number of the exchange it belongs to, which *)
(* stands for its content.                                                 *)
(***************************************************************************)
k == 8

\* The window handed to the prompt: the last k exchanges (2k messages).
\* Variant: the window is cut at k messages instead of k exchanges.
buffer_window_k_messages(msgs) ==
  IF Len(msgs) > k THEN SubSeq(msgs, Len(msgs) - k + 1, Len(msgs)) ELSE msgs

buffer_window(msgs) ==
  IF Len(msgs) > 2 * k THEN SubSeq(msgs, Len(msgs) - 2 * k + 1, Len(msgs)) ELSE msgs

\* save_context: the question and the answer are appended.
save_context(msgs, n) ==
  msgs \o <<[type |-> "human", exchange |-> n], [type |-> "ai", exchange |-> n]>>

\* Variant: clear() leaves the stored messages in place.
memory_clear_skipped(msgs) == msgs

\* memory.clear()
memory_clear(msgs) == <<>>

(***************************************************************************)
(* The responses of get_response.                                          *)
(***************************************************************************)
PlainAnswer(text) == [base |-> text, found |-> 0, entries |-> <<>>]

NoResponse ==
  [answer |-> PlainAnswer(""), sources |-> <<>>, recipes |-> <<>>,
   suggestions |-> <<>>, error |-> None]

GreetingText ==
  "Hello! I'm your recipe assistant. Ask me about recipes, cooking tips, or tell me what ingredients you have and I'll suggest some delicious dishes you can make!"

GreetingResponse ==
  [answer |-> PlainAnswer(GreetingText),
   sources |-> <<>>,
   recipes |-> <<>>,
   suggestions |-> <<Sugg("What ingredients do you have?"),
                     Sugg("Show me quick dinner recipes"),
                     Sugg("I need a vegetarian meal")>>,
   error |-> None]

ApologyText ==
  "I'm sorry, I encountered an issue while searching for recipes. Please try rephrasing your question or ask about a specific dish or ingredient."

ErrorResponse(e) ==
  [answer |-> PlainAnswer(ApologyText),
   sources |-> <<>>,
   recipes |-> <<>>,
   suggestions |-> <<Sugg("Try asking about a specific ingredient"),
                     Sugg("Search for a cuisine type"),
                     Sugg("Ask for cooking tips")>>,
   error |-> e]

SuccessResponse(formatted, sources, recipes, suggs) ==
  [answer |-> formatted, sources |-> sources, recipes |-> recipes,
   suggestions |-> suggs, error |-> None]

\* if not user_input.strip()
\* Variant: only the empty string is tested, without strip().
is_blank_unstripped(user_in) == user_in = <<>>

is_blank(user_in) == Strip(user_in) = <<>>

(***************************************************************************)
(* Inputs.                                                                 *)
(***************************************************************************)
UserInputs ==
  { <<>>,
    <<" ", " ">>,
    <<" ", "\t", "\n">>,
    <<"I", " ", "h", "a", "v", "e", " ", "r", "i", "c", "e">>,
    <<"I", " ", "H", "a", "v", "e", " ", "R", "i", "c", "e">>,
    <<"G", "o", "t", " ", "r", "i", "c", "e", " ", "w", "i", "t", "h", " ", "p", "e", "a", "s">>,
    <<"u", "s", "i", "n", "g", " ", "e", "g", "g", "s">>,
    <<"q", "u", "i", "c", "k", " ", "m", "e", "a", "l">>,
    <<"f", "a", "s", "t", " ", "w", "i", "t", "h", " ", "r", "i", "c", "e">>,
    <<"d", "i", "n", "n", "e", "r">>,
    <<"i", "n", "g", "r", "e", "d", "i", "e", "n", "t", " ", "l", "i", "s", "t">>,
    <<"e", "a", "s", "y", " ", "v", "e", "g", "a", "n", " ", "t", "h", "a", "i">>,
    <<"s", "h", "a", "v", "e", " ", "i", "c", "e">> }

\* The free-text answers the generative model may give.
Answers == {"answer one", "answer two"}

\* The exceptions the retrieval chain may raise (store or model unreachable).
ChainErrors == {"StoreUnavailable", "GenerationError"}

(***************************************************************************)
(* State.                                                                  *)
(***************************************************************************)
VARIABLES
  messages,         \* memory.chat_memory.messages of the chatbot called
  pc,               \* position of the get_response call in progress, or "idle"
  user_input,       \* argument of the current or last get_response call
  processed_query,  \* locals of get_response
  chat_history,     \*   the window the chain loaded from the memory
  answer,
  source_docs,
  recipes_info,
  unique_sources,
  suggestions,
  response,         \* value returned by the last get_response call
  search_result,    \* value returned by the last search_recipes call
  clear_result,     \* value returned by the last clear_memory call
  escaped,          \* an exception left the last entry-point call
  last_op,          \* the entry point called last, and the one before it
  prev_op,
  calls,            \* entry-point calls made so far
  exchanges,        \* exchanges saved so far (numbers the next one)
  recorded,         \* history: exchanges saved since the last clear, in order
  mem_before,       \* history: messages when the last entry point was called
  stages,           \* history: stages the current get_response call has run
  failed_stage,     \* history: the stage that raised, or ""
  retrieval_calls,  \* history: chain invocations of the current call
  retrieval_query,  \* history: what the chain handed to the retriever
  llm_calls,        \* history: description calls of the current call
  llm_failures,     \* history: the listed recipes whose description call raised
  search_error,     \* history: the exception search_recipes caught, or None
  search_args,      \* history: the arguments of the last search_recipes call
  filter_call,      \* history: the last evaluation of _apply_filters on its own
  collection,       \* the "recipes" collection of the store and its ids
  store_call,       \* history: the last call on the document manager
  app_messages      \* memory messages of the chatbot that app.py constructs

chatbot_vars ==
  <<messages, pc, user_input, processed_query, chat_history, answer,
    source_docs, recipes_info, unique_sources, suggestions, response,
    search_result, clear_result, escaped, last_op, prev_op, calls, exchanges,
    recorded, mem_before, stages, failed_stage, retrieval_calls,
    retrieval_query, llm_calls, llm_failures,
    search_error, search_args, filter_call>>

store_vars == <<collection, store_call>>

vars == <<chatbot_vars, store_vars, app_messages>>

locals ==
  <<processed_query, chat_history, answer, source_docs, recipes_info,
    unique_sources, suggestions>>

memory_vars == <<messages, exchanges, recorded>>

\* retrieval_query before the chain has run.
NoQuery == [text |-> <<>>, drawn_from |-> <<>>]

\* store_call before any call on the document manager.
NoStoreCall ==
  [op |-> "none", recipe_id |-> None, id |-> None, result |-> FALSE,
   ids_before |-> {}, prev_op |-> "none", prev_result |-> FALSE, n |-> 0]

\* filter_call before any evaluation.
NoFilterCall == [called |-> FALSE]

\* search_args before any search_recipes call.
NoSearch == [results |-> [is_none |-> TRUE, hits |-> <<>>],
             filters |-> [is_none |-> TRUE, items |-> {}],
             cooking_time |-> 0]

Init ==
  /\ messages = <<>>
  /\ pc = "idle"
  /\ user_input = <<>>
  /\ processed_query = <<>>
  /\ chat_history = <<>>
  /\ answer = ""
  /\ source_docs = <<>>
  /\ recipes_info = <<>>
  /\ unique_sources = <<>>
  /\ suggestions = <<>>
  /\ response = NoResponse
  /\ search_result = <<>>
  /\ clear_result = FALSE
  /\ escaped = FALSE
  /\ last_op = "none"
  /\ prev_op = "none"
  /\ calls = 0
  /\ exchanges = 0
  /\ recorded = <<>>
  /\ mem_before = <<>>
  /\ stages = <<>>
  /\ failed_stage = ""
  /\ retrieval_calls = 0
  /\ retrieval_query = NoQuery
  /\ llm_calls = 0
  /\ llm_failures = {}
  /\ filter_call = NoFilterCall
  /\ search_error = None
  /\ search_args = NoSearch
  /\ collection = [exists |-> TRUE, ids |-> {}]
  /\ store_call = NoStoreCall
  /\ app_messages = <<>>

\* Entering an entry point: the previous call's results are gone.
Enter(op) ==
  /\ last_op' = op
  /\ prev_op' = last_op
  /\ calls' = calls + 1
  /\ mem_before' = messages
  /\ stages' = <<>>
  /\ failed_stage' = ""
  /\ retrieval_calls' = 0
  /\ retrieval_query' = NoQuery
  /\ llm_calls' = 0
  /\ llm_failures' = {}
  /\ filter_call' = NoFilterCall
  /\ processed_query' = <<>>
  /\ chat_history' = <<>>
  /\ answer' = ""
  /\ source_docs' = <<>>
  /\ recipes_info' = <<>>
  /\ unique_sources' = <<>>
  /\ suggestions' = <<>>
  /\ UNCHANGED store_vars

(***************************************************************************)
(* RecipeChatbot.get_response, stage by stage.                             *)
(***************************************************************************)
\* The except block: the exception is logged and the error response returned.
\* Variant: the exception is not caught and leaves get_response.
get_response_uncaught(e) == [escaped |-> TRUE, response |-> NoResponse]

get_response_except(e) == [escaped |-> FALSE, response |-> ErrorResponse(e)]

\* Variant: the exception is swallowed where it is raised and the call goes on
\* to format a response.
Raise_swallowed(stage, e) ==
  /\ pc' = "formatting"
  /\ failed_stage' = stage
  /\ response' = response
  /\ escaped' = escaped

\* A stage raised e: control moves to the except block and the call returns.
Raise(stage, e) ==
  /\ pc' = "idle"
  /\ failed_stage' = stage
  /\ response' = get_response_except(e).response
  /\ escaped' = get_response_except(e).escaped

\* The call: the blank-input test, outside the try block.
GetResponse(inputs, max_calls) ==
  /\ pc = "idle"
  /\ calls < max_calls
  /\ \E u \in inputs :
       /\ user_input' = u
       /\ IF is_blank(u)
            THEN /\ response' = GreetingResponse
                 /\ pc' = "idle"
            ELSE /\ response' = NoResponse
                 /\ pc' = "enhancing"
  /\ Enter("get_response")
  /\ escaped' = FALSE
  /\ search_result' = <<>>
  /\ search_error' = None
  /\ search_args' = NoSearch
  /\ clear_result' = FALSE
  /\ UNCHANGED <<memory_vars, app_messages>>

\* processed_query = self._enhance_user_query(user_input)
Enhancing ==
  /\ pc = "enhancing"
  /\ stages' = Append(stages, "enhancing")
  /\ processed_query' = _enhance_user_query(user_input)
  /\ pc' = "retrieving"
  /\ UNCHANGED <<messages, user_input, chat_history, answer, source_docs,
                 recipes_info, unique_sources, suggestions, response,
                 search_result, clear_result, escaped, last_op, prev_op, calls,
                 exchanges, recorded, mem_before, failed_stage,
                 retrieval_calls, retrieval_query, llm_calls, llm_failures,
                 search_error, search_args, filter_call>>
  /\ UNCHANGED <<store_vars, app_messages>>

\* What ConversationalRetrievalChain hands to the retriever: the question as
\* it is when the chat history is empty; else the standalone question its
\* question generator (the LLM) writes from the chat history and the question,
\* which repeats the question or draws on the history.
standalone_question(question, history) ==
  IF history = <<>>
    THEN {[text |-> question, drawn_from |-> <<>>]}
    ELSE {[text |-> question, drawn_from |-> <<>>],
          [text |-> question, drawn_from |-> history]}

\* result = self.conversation_chain.invoke({"question": processed_query}):
\* the chain loads the memory window, retrieves and generates, and saves the
\* exchange to the memory before it returns; if retrieval or generation
\* raises, nothing is saved.
Retrieving(doc_lists) ==
  /\ pc = "retrieving"
  /\ stages' = Append(stages, "retrieving")
  /\ chat_history' = buffer_window(messages)
  /\ retrieval_calls' = retrieval_calls + 1
  /\ retrieval_query' \in standalone_question(processed_query, chat_history')
  /\ \/ /\ \E e \in ChainErrors : Raise("retrieving", e)
        /\ UNCHANGED <<answer, source_docs, messages, exchanges, recorded>>
     \/ /\ \E a \in Answers, docs \in doc_lists :
             /\ answer' = a
             /\ source_docs' = docs
        /\ messages' = save_context(messages, exchanges + 1)
        /\ exchanges' = exchanges + 1
        /\ recorded' = Append(recorded, exchanges + 1)
        /\ pc' = "extracting"
        /\ UNCHANGED <<response, escaped, failed_stage>>
  /\ UNCHANGED <<user_input, processed_query, recipes_info, unique_sources,
                 suggestions, search_result, clear_result, last_op, prev_op,
                 calls, mem_before, llm_calls,
                 llm_failures, search_error, search_args, filter_call>>
  /\ UNCHANGED <<store_vars, app_messages>>

\* recipes_info, unique_sources and suggestions are computed in this order;
\* _process_sources raises on a passage whose metadata is not a mapping.
Extracting ==
  /\ pc = "extracting"
  /\ stages' = Append(stages, "extracting")
  /\ recipes_info' = _extract_recipe_info(source_docs)
  /\ IF process_sources_raises(source_docs)
       THEN /\ Raise("extracting", "AttributeError")
            /\ UNCHANGED <<unique_sources, suggestions>>
       ELSE /\ unique_sources' = _process_sources(source_docs)
            /\ suggestions' =
                 _generate_follow_up_suggestions(user_input, recipes_info')
            /\ pc' = "formatting"
            /\ UNCHANGED <<response, escaped, failed_stage>>
  /\ UNCHANGED <<messages, user_input, processed_query, chat_history, answer,
                 source_docs, search_result, clear_result, last_op, prev_op,
                 calls, exchanges, recorded, mem_before, retrieval_calls,
                 retrieval_query, llm_calls, llm_failures, search_error,
                 search_args, filter_call>>
  /\ UNCHANGED <<store_vars, app_messages>>

\* formatted_answer = self._format_response(answer, recipes_info), then the
\* success response is returned.  Each description call may fail on its own.
Formatting ==
  /\ pc = "formatting"
  /\ stages' = Append(stages, "formatting")
  /\ \E llm_failed \in SUBSET (1..description_calls(recipes_info)) :
       /\ response' = SuccessResponse(
                        _format_response(answer, recipes_info, llm_failed),
                        unique_sources, recipes_info, suggestions)
       /\ llm_failures' = llm_failed
  /\ llm_calls' = llm_calls + description_calls(recipes_info)
  /\ pc' = "idle"
  /\ UNCHANGED <<messages, user_input, processed_query, chat_history, answer,
                 source_docs, recipes_info, unique_sources, suggestions,
                 search_result, clear_result, escaped, last_op, prev_op, calls,
                 exchanges, recorded, mem_before, failed_stage,
                 retrieval_calls, retrieval_query, search_error, search_args,
                 filter_call>>
  /\ UNCHANGED <<store_vars, app_messages>>

(***************************************************************************)
(* RecipeChatbot.clear_memory                                              *)
(***************************************************************************)
ClearMemory(max_calls) ==
  /\ pc = "idle"
  /\ calls < max_calls
  /\ Enter("clear_memory")
  /\ messages' = memory_clear(messages)
  /\ recorded' = <<>>
  /\ clear_result' = TRUE
  /\ escaped' = FALSE
  /\ response' = NoResponse
  /\ search_result' = <<>>
  /\ search_error' = None
  /\ search_args' = NoSearch
  /\ UNCHANGED <<pc, user_input, exchanges, app_messages>>

(***************************************************************************)
(* More text helpers, for the parsing of stored recipe documents.          *)
(***************************************************************************)
\* s.startswith(w)
StartsWith(s, w) == Len(s) >= Len(w) /\ SubSeq(s, 1, Len(w)) = w

\* Index of the first occurrence of w in s, 0 when there is none.
Find(s, w) ==
  IF Contains(s, w)
    THEN CHOOSE i \in 1..(Len(s) - Len(w) + 1) :
           /\ SubSeq(s, i, i + Len(w) - 1) = w
           /\ \A j \in 1..(i - 1) : SubSeq(s, j, j + Len(w) - 1) # w
    ELSE 0

\* s.split(sep) for a non-empty separator.
RECURSIVE SplitOn(_, _)
SplitOn(s, sep) ==
  LET i == Find(s, sep)
  IN  IF i = 0 THEN <<s>>
      ELSE <<SubSeq(s, 1, i - 1)>>
           \o SplitOn(SubSeq(s, i + Len(sep), Len(s)), sep)

\* ''.join(parts)
RECURSIVE Concat(_)
Concat(parts) ==
  IF parts = <<>> THEN <<>> ELSE Head(parts) \o Concat(Tail(parts))

\* s.replace(old, '')
Remove(s, old) == Concat(SplitOn(s, old))

\* Length of the longest prefix of s without whitespace.
RECURSIVE WordLen(_)
WordLen(s) ==
  IF s = <<>> \/ Head(s) \in Whitespace THEN 0 ELSE 1 + WordLen(Tail(s))

\* s.split(): the maximal runs of non-whitespace characters.
RECURSIVE SplitWS(_)
SplitWS(s) ==
  LET t == LStrip(s)
      n == WordLen(t)
  IN  IF t = <<>> THEN <<>>
      ELSE <<SubSeq(t, 1, n)>> \o SplitWS(SubSeq(t, n + 1, Len(t)))

Digits == <<"0", "1", "2", "3", "4", "5", "6", "7", "8", "9">>

IsDigit(c) == \E i \in 1..10 : Digits[i] = c

DigitValue(c) == (CHOOSE i \in 1..10 : Digits[i] = c) - 1

\* int(w) raises ValueError unless w is a decimal numeral (the words of the
\* modelled documents carry no sign, underscore or surrounding blanks).
IsInt(w) == w # <<>> /\ \A i \in 1..Len(w) : IsDigit(w[i])

RECURSIVE ToInt(_)
ToInt(w) ==
  IF w = <<>> THEN 0
  ELSE 10 * ToInt(SubSeq(w, 1, Len(w) - 1)) + DigitValue(w[Len(w)])

S_blankline == <<"\n", "\n">>
S_newline == <<"\n">>
S_Ingredients == <<"I", "n", "g", "r", "e", "d", "i", "e", "n", "t", "s", ":">>
S_Instructions == <<"I", "n", "s", "t", "r", "u", "c", "t", "i", "o", "n", "s", ":">>
S_Nutrition ==
  <<"N", "u", "t", "r", "i", "t", "i", "o", "n", " ",
    "I", "n", "f", "o", "r", "m", "a", "t", "i", "o", "n", ":">>
S_serves == <<"s", "e", "r", "v", "e", "s">>
S_veg == <<"v", "e", "g">>
S_nonveg == <<"n", "o", "n", "-", "v", "e", "g">>
S_breakfast == <<"b", "r", "e", "a", "k", "f", "a", "s", "t">>
S_lunch == <<"l", "u", "n", "c", "h">>
S_dinner == <<"d", "i", "n", "n", "e", "r">>
S_dessert == <<"d", "e", "s", "s", "e", "r", "t">>
S_snacks == <<"s", "n", "a", "c", "k", "s">>
S_main == <<"m", "a", "i", "n">>

(***************************************************************************)
(* RecipeDocumentManager.format_recipe_text: the text of a stored          *)
(* document.                                                               *)
(***************************************************************************)
format_recipe_text(name, ingredients, instructions, nutrition) ==
  Strip(S_newline
        \o <<"R", "e", "c", "i", "p", "e", ":", " ">> \o name \o S_blankline
        \o S_Ingredients \o S_newline \o ingredients \o S_blankline
        \o S_Instructions \o S_newline \o instructions \o S_blankline
        \o S_Nutrition \o S_newline \o nutrition \o S_newline)

(***************************************************************************)
(* RecipeChatbot._parse_recipe_document                                    *)
(* recipe_info is a function from the keys present to their text.          *)
(***************************************************************************)
EmptyInfo == <<>>

\* recipe_info[key] = value
Put(info, key, value) == (key :> value) @@ info

\* One turn of the loop over the sections.
parse_section(info, section) ==
  IF StartsWith(section, S_Ingredients)
    THEN Put(info, "ingredients", Strip(Remove(section, S_Ingredients)))
  ELSE IF StartsWith(section, S_Instructions)
    THEN Put(info, "instructions", Strip(Remove(section, S_Instructions)))
  ELSE IF StartsWith(section, S_Nutrition)
    THEN Put(info, "nutrition", Strip(Remove(section, S_Nutrition)))
  ELSE info

RECURSIVE parse_sections(_, _)
parse_sections(info, sections) ==
  IF sections = <<>> THEN info
  ELSE parse_sections(parse_section(info, Head(sections)), Tail(sections))

\* 'serves' in recipe_info['instructions'].lower()
mentions_serves(info) ==
  "instructions" \in DOMAIN info /\ Contains(Lower(info["instructions"]), S_serves)

\* recipe_info['instructions'].split('serves')[1].split()[0] raises IndexError
\* when the (case-sensitive) split has one part only, or nothing follows.
servings_raises(info) ==
  LET parts == SplitOn(info["instructions"], S_serves)
  IN  Len(parts) < 2 \/ SplitWS(parts[2]) = <<>>

servings_of(info) == SplitWS(SplitOn(info["instructions"], S_serves)[2])[1]

DescriptionWords == 20

\* ' '.join(recipe_info['instructions'].split()[:20]) + '...'
description_of(info) ==
  Join(Take(SplitWS(info["instructions"]), DescriptionWords)) \o <<".", ".", ".">>

_parse_recipe_document(doc) ==
  LET info1 == parse_sections(EmptyInfo, SplitOn(doc, S_blankline))
  IN  IF mentions_serves(info1) /\ servings_raises(info1)
        THEN EmptyInfo            \* except: logged, return {}
        ELSE LET info2 == IF mentions_serves(info1)
                            THEN Put(info1, "servings", servings_of(info1))
                            ELSE info1
             IN  IF "instructions" \in DOMAIN info2
                   THEN Put(info2, "description", description_of(info2))
                   ELSE info2

(***************************************************************************)
(* RecipeChatbot._apply_filters                                            *)
(* filters is None or a list of filter tags.                               *)
(***************************************************************************)
NoFilters == [is_none |-> TRUE, items |-> {}]

FilterList(items) == [is_none |-> FALSE, items |-> items]

\* `not filters`
filters_falsy(filters) == filters.is_none \/ filters.items = {}

recipe_type(info) == Lower(Get(info, "type", <<>>))

MealTimeTags == {"breakfast", "lunch", "dinner"}
MealTypeTags == {"dessert", "snacks", "main"}
ServingTags == {"servings-1-2", "servings-3-4", "servings-5+"}

\* The word int() is applied to in the servings check.
servings_words(info) == SplitWS(Get(info, "servings", <<"0">>))

\* The checks in the order of the code; each yields "reject", "raise" or "next".
check_diet(info, filters) ==
  IF "veg" \in filters.items /\ Contains(recipe_type(info), S_nonveg) THEN "reject"
  ELSE IF "non-veg" \in filters.items /\ Contains(recipe_type(info), S_veg) THEN "reject"
  ELSE "next"

check_meal_time(info, filters) ==
  IF /\ filters.items \cap MealTimeTags # {}
     /\ ~AnyIn(<<S_breakfast, S_lunch, S_dinner>>, recipe_type(info))
    THEN "reject" ELSE "next"

check_meal_type(info, filters) ==
  IF /\ filters.items \cap MealTypeTags # {}
     /\ ~AnyIn(<<S_dessert, S_snacks, S_main>>, recipe_type(info))
    THEN "reject" ELSE "next"

check_cooking_time(info, cooking_time) ==
  IF "cooking_time" \in DOMAIN info
    THEN IF ~IsInt(info["cooking_time"]) THEN "raise"
         ELSE IF ToInt(info["cooking_time"]) > cooking_time THEN "reject"
         ELSE "next"
    ELSE "next"

check_servings(info, filters) ==
  IF filters.items \cap ServingTags # {}
    THEN IF servings_words(info) = <<>> \/ ~IsInt(servings_words(info)[1])
           THEN "raise"
         ELSE LET servings == ToInt(servings_words(info)[1])
              IN  IF "servings-1-2" \in filters.items /\ servings > 2 THEN "reject"
                  ELSE IF "servings-3-4" \in filters.items
                          /\ (servings < 3 \/ servings > 4) THEN "reject"
                  ELSE IF "servings-5+" \in filters.items /\ servings < 5 THEN "reject"
                  ELSE "next"
    ELSE "next"

filter_checks(info, filters, cooking_time) ==
  <<check_diet(info, filters), check_meal_time(info, filters),
    check_meal_type(info, filters), check_cooking_time(info, cooking_time),
    check_servings(info, filters)>>

\* The first check that does not fall through decides: a rejection returns
\* False, an exception is logged and returns True, else True.
\* The same with an exception counted as a rejection.
RECURSIVE first_decision_strict(_)
first_decision_strict(checks) ==
  IF checks = <<>> THEN TRUE
  ELSE IF Head(checks) \in {"reject", "raise"} THEN FALSE
  ELSE first_decision_strict(Tail(checks))

RECURSIVE first_decision(_)
first_decision(checks) ==
  IF checks = <<>> THEN TRUE
  ELSE IF Head(checks) = "reject" THEN FALSE
  ELSE IF Head(checks) = "raise" THEN TRUE
  ELSE first_decision(Tail(checks))

_apply_filters(info, filters, cooking_time) ==
  IF filters_falsy(filters) THEN TRUE
  ELSE first_decision(filter_checks(info, filters, cooking_time))

(***************************************************************************)
(* RecipeChatbot.search_recipes                                            *)
(* results is what document_manager.search_recipes returned: None when the *)
(* store query failed, else the retrieved documents with their metadata.   *)
(***************************************************************************)
ResultLimit == 10

NoResults == [is_none |-> TRUE, hits |-> <<>>]

Results(hits) == [is_none |-> FALSE, hits |-> hits]

\* Building the card of one hit: metadata['name'] and metadata['rating']
\* raise KeyError when absent, 'veg' in filters raises TypeError on None.
card_raises(hit, filters) ==
  IF "name" \notin DOMAIN hit.metadata THEN "KeyError"
  ELSE IF "rating" \notin DOMAIN hit.metadata THEN "KeyError"
  ELSE IF filters.is_none THEN "TypeError"
  ELSE None

card_of(hit, info, filters) ==
  [name |-> hit.metadata["name"],
   image |-> Get(hit.metadata, "image_url", ""),
   rating |-> hit.metadata["rating"],
   type |-> IF "veg" \in filters.items THEN "Vegetarian" ELSE "Non-Vegetarian",
   servings |-> Get(info, "servings", <<"N", "/", "A">>),
   description |-> Get(info, "description", <<>>)]

\* The loop over the hits: the state is the cards so far, or the exception.
RECURSIVE search_loop(_, _, _, _)
search_loop(cards, hits, filters, cooking_time) ==
  IF hits = <<>> THEN [exc |-> None, cards |-> cards]
  ELSE LET hit == Head(hits)
           info == _parse_recipe_document(hit.doc)
       IN  IF _apply_filters(info, filters, cooking_time)
             THEN IF card_raises(hit, filters) # None
                    THEN [exc |-> card_raises(hit, filters), cards |-> cards]
                    ELSE search_loop(Append(cards, card_of(hit, info, filters)),
                                     Tail(hits), filters, cooking_time)
             ELSE search_loop(cards, Tail(hits), filters, cooking_time)

\* The except block: the exception is logged and [] returned.
search_recipes_except(e) == [escaped |-> FALSE, result |-> <<>>]

\* The same without the slice [:10].
search_recipes_uncapped(results, filters, cooking_time) ==
  IF results.is_none \/ results.hits = <<>>
    THEN [escaped |-> FALSE, result |-> <<>>, exc |-> None]
    ELSE LET out == search_loop(<<>>, results.hits, filters, cooking_time)
         IN  [escaped |-> FALSE, result |-> out.cards, exc |-> out.exc]

search_recipes(results, filters, cooking_time) ==
  IF results.is_none \/ results.hits = <<>>
    THEN [escaped |-> FALSE, result |-> <<>>, exc |-> None]
    ELSE LET out == search_loop(<<>>, results.hits, filters, cooking_time)
         IN  IF out.exc # None
               THEN [escaped |-> search_recipes_except(out.exc).escaped,
                     result |-> search_recipes_except(out.exc).result,
                     exc |-> out.exc]
               ELSE [escaped |-> FALSE, result |-> Take(out.cards, ResultLimit),
                     exc |-> None]

(***************************************************************************)
(* Stored documents the similarity search may hand to search_recipes.     *)
(***************************************************************************)
T_ApplePie == <<"A", "p", "p", "l", "e", " ", "P", "i", "e">>
T_apples == <<"a", "p", "p", "l", "e", "s", ",", " ", "f", "l", "o", "u", "r">>
T_kcal == <<"1", "0", "0", " ", "k", "c", "a", "l">>
T_mix ==
  <<"M", "i", "x", " ", "w", "e", "l", "l", ".", " ",
    "s", "e", "r", "v", "e", "s", " ", "4", " ", "p", "e", "o", "p", "l", "e">>

\* The metadata RecipeDocumentManager.add_recipe stores with a document.
stored_metadata(name, rating) ==
  [name |-> name, rating |-> rating, url |-> "", category |-> "Dessert",
   image_url |-> "img.jpg"]

H_Pie ==
  [doc |-> format_recipe_text(T_ApplePie, T_apples, T_mix, T_kcal),
   metadata |-> stored_metadata("Apple Pie", "4.5")]

H_Cake ==
  [doc |-> format_recipe_text(
             T_ApplePie, T_apples,
             <<"B", "a", "k", "e", ".", " ", "S", "e", "r", "v", "e", "s", " ", "6">>,
             T_kcal),
   metadata |-> stored_metadata("Cake", "4.0")]

H_Soup ==
  [doc |-> format_recipe_text(
             T_ApplePie, T_apples,
             <<"B", "o", "i", "l", ".", " ",
               "s", "e", "r", "v", "e", "s", " ", "s", "i", "x">>,
             T_kcal),
   metadata |-> stored_metadata("Soup", "3.0")]

H_Fry ==
  [doc |-> format_recipe_text(
             T_ApplePie, T_apples,
             <<"F", "r", "y", ".", " ", "s", "e", "r", "v", "e", "s", " ", "6", " ",
               "o", "r", " ", "s", "e", "r", "v", "e", "s", " ", "2">>,
             T_kcal),
   metadata |-> stored_metadata("Fry", "5.0")]

\* A document of the collection that add_recipe did not store: no name.
H_Foreign ==
  [doc |-> T_mix, metadata |-> [rating |-> "1.0"]]

Hits == {H_Pie, H_Cake, H_Soup, H_Fry, H_Foreign}

SearchResults == {NoResults} \cup {Results(h) : h \in ListsUpTo(Hits, MaxHits)}

FilterOptions ==
  {NoFilters, FilterList({}), FilterList({"veg"}), FilterList({"dinner"}),
   FilterList({"servings-3-4"}), FilterList({"servings-5+"}),
   FilterList({"non-veg", "servings-1-2"})}

\* cooking_time=30
DefaultCookingTime == 30

\* Every call of search_recipes with its return value.
SearchCalls ==
  {[args |-> [results |-> r, filters |-> f, cooking_time |-> DefaultCookingTime],
    out |-> search_recipes(r, f, DefaultCookingTime)] :
     r \in SearchResults, f \in FilterOptions}

SearchRecipes(search_calls, max_calls) ==
  /\ pc = "idle"
  /\ calls < max_calls
  /\ \E c \in search_calls :
       /\ search_args' = c.args
       /\ search_result' = c.out.result
       /\ search_error' = c.out.exc
       /\ escaped' = c.out.escaped
  /\ Enter("search_recipes")
  /\ response' = NoResponse
  /\ clear_result' = FALSE
  /\ UNCHANGED <<pc, user_input, messages, exchanges, recorded, app_messages>>

(***************************************************************************)
(* RecipeChatbot._apply_filters on its own: the recipe_info it is given is  *)
(* what _parse_recipe_document returns for a stored document, or carries    *)
(* the keys 'type', 'servings' and 'cooking_time' that the checks read.     *)
(***************************************************************************)
Optional(texts) ==
  {[has |-> FALSE, text |-> <<>>]} \cup {[has |-> TRUE, text |-> t] : t \in texts}

PutIf(info, key, opt) == IF opt.has THEN Put(info, key, opt.text) ELSE info

FilterInfos ==
  {_parse_recipe_document(h.doc) : h \in Hits}
  \cup {PutIf(PutIf(PutIf(EmptyInfo, "type", t), "servings", sv), "cooking_time", ct) :
          t \in Optional({S_veg, S_nonveg, S_breakfast, S_dessert,
                           <<"D", "i", "n", "n", "e", "r">>}),
          sv \in Optional({<<"2">>, <<"4">>, <<"6">>, <<"s", "i", "x">>}),
          ct \in Optional({<<"2", "0">>, <<"4", "5">>, <<"s", "o", "o", "n">>})}

FilterChoices ==
  FilterOptions
  \cup {FilterList({"non-veg"}), FilterList({"breakfast"}), FilterList({"dessert"}),
        FilterList({"servings-1-2"}), FilterList({"veg", "dinner", "main"})}

\* One evaluation: the decision is a function of the three arguments.
ApplyFilters(infos, filter_options, limits) ==
  /\ pc = "idle"
  /\ ~filter_call.called
  /\ \E info \in infos, filters \in filter_options, cooking_time \in limits :
       filter_call' = [called |-> TRUE, info |-> info, filters |-> filters,
                       cooking_time |-> cooking_time,
                       passed |-> _apply_filters(info, filters, cooking_time)]
  /\ last_op' = "_apply_filters"
  /\ prev_op' = last_op
  /\ UNCHANGED <<messages, pc, user_input, processed_query, chat_history,
                 answer, source_docs, recipes_info, unique_sources,
                 suggestions, response, search_result, clear_result, escaped,
                 calls, exchanges, recorded, mem_before, stages, failed_stage,
                 retrieval_calls, retrieval_query, llm_calls, llm_failures,
                 search_error, search_args>>
  /\ UNCHANGED <<store_vars, app_messages>>

(***************************************************************************)
(* RecipeDocumentManager: the "recipes" collection of the store.  The      *)
(* manager keeps the handle it got from the client at construction; after  *)
(* the collection is deleted every operation on the handle raises.         *)
(***************************************************************************)
\* f"recipe_{len(self.collection.get()['ids'])}"
generated_id(ids) == "recipe_" \o ToString(Cardinality(ids))

\* The outcomes of add_recipe: reading the ids or adding raises on a deleted
\* collection and False is returned; adding an id the collection already
\* holds stores nothing (the store rejects it with an exception, or skips
\* it silently); else the document is stored under the id.
add_recipe(coll, recipe_id) ==
  LET id == IF recipe_id = None THEN generated_id(coll.ids) ELSE recipe_id
  IN  IF ~coll.exists
        THEN {[collection |-> coll, result |-> FALSE,
               id |-> IF recipe_id = None THEN None ELSE recipe_id]}
      ELSE IF id \in coll.ids
        THEN {[collection |-> coll, id |-> id, result |-> r] : r \in BOOLEAN}
      ELSE {[collection |-> [coll EXCEPT !.ids = @ \cup {id}],
             id |-> id, result |-> TRUE]}

\* client.delete_collection(name="recipes") raises when there is no such
\* collection; the except block returns False.
delete_collection(coll) ==
  IF coll.exists
    THEN [collection |-> [exists |-> FALSE, ids |-> {}], result |-> TRUE]
    ELSE [collection |-> coll, result |-> FALSE]

\* The call is recorded with the one before it.
StoreCall(op, recipe_id, id, result) ==
  [op |-> op, recipe_id |-> recipe_id, id |-> id, result |-> result,
   ids_before |-> collection.ids, prev_op |-> store_call.op,
   prev_result |-> store_call.result, n |-> store_call.n + 1]

AddRecipe(recipe_ids, max_calls) ==
  /\ store_call.n < max_calls
  /\ \E recipe_id \in recipe_ids \cup {None} :
       \E out \in add_recipe(collection, recipe_id) :
         /\ collection' = out.collection
         /\ store_call' = StoreCall("add_recipe", recipe_id, out.id, out.result)
  /\ UNCHANGED <<chatbot_vars, app_messages>>

DeleteCollection(max_calls) ==
  /\ store_call.n < max_calls
  /\ collection' = delete_collection(collection).collection
  /\ store_call' = StoreCall("delete_collection", None, None,
                             delete_collection(collection).result)
  /\ UNCHANGED <<chatbot_vars, app_messages>>

\* RecipeDocumentManager(): the collection is loaded, or created if absent.
NewManager(max_calls) ==
  /\ store_call.n < max_calls
  /\ collection' = [collection EXCEPT !.exists = TRUE]
  /\ store_call' = StoreCall("__init__", None, None, TRUE)
  /\ UNCHANGED <<chatbot_vars, app_messages>>

(***************************************************************************)
(* app.py: POST /clear calls clear_memory on the chatbot that app.py        *)
(* constructs; POST /chat goes through chatbot_response, which calls        *)
(* get_response on the instance get_chatbot_instance() creates and keeps.   *)
(***************************************************************************)
ClearConversation(max_calls) ==
  /\ pc = "idle"
  /\ calls < max_calls
  /\ Enter("clear_conversation")
  /\ app_messages' = memory_clear(app_messages)
  /\ clear_result' = TRUE
  /\ escaped' = FALSE
  /\ response' = NoResponse
  /\ search_result' = <<>>
  /\ search_error' = None
  /\ search_args' = NoSearch
  /\ UNCHANGED <<pc, user_input, messages, exchanges, recorded>>

(***************************************************************************)
(* Specifications.                                                         *)
(***************************************************************************)
\* The conversation: every input, every list of retrieved passages.
Next ==
  \/ GetResponse(UserInputs, MaxCalls)
  \/ Enhancing
  \/ Retrieving(DocLists)
  \/ Extracting
  \/ Formatting
  \/ ClearMemory(MaxCalls)

Spec == Init /\ [][Next]_vars

\* The memory window over long conversations: a blank and a plain input,
\* passages that are well-formed or not.
WindowInputs ==
  { <<" ", " ">>,
    <<"d", "i", "n", "n", "e", "r">> }

WindowDocLists == {<<>>, <<P_Malformed>>}

NextWindow ==
  \/ GetResponse(WindowInputs, MaxWindowCalls)
  \/ Enhancing
  \/ Retrieving(WindowDocLists)
  \/ Extracting
  \/ Formatting
  \/ ClearMemory(MaxWindowCalls)

SpecWindow == Init /\ [][NextWindow]_vars

\* Every entry point of the service.
NextService ==
  \/ GetResponse(WindowInputs, MaxServiceCalls)
  \/ Enhancing
  \/ Retrieving(WindowDocLists)
  \/ Extracting
  \/ Formatting
  \/ ClearMemory(MaxServiceCalls)
  \/ SearchRecipes(SearchCalls, MaxServiceCalls)

SpecService == Init /\ [][NextService]_vars

\* Long lists of retrieved passages, for the caps of extraction, source
\* processing and formatting.  The passage at position i is a fresh recipe
\* (name i, from the cookbook), or carries the name of position i - 1 again,
\* from the same source or from another one, with a text of its own.
RecipeNames ==
  <<"Apple Pie", "Dal", "Soup", "Cake", "Fry", "Stew", "Rice", "Tart", "Naan">>

PassageLengths == <<40, 150, 151, 200, 149, 153, 10, 300, 150>>

PassageAt(i, kind) ==
  LET n == IF kind = "fresh" \/ i = 1 THEN i ELSE i - 1
  IN  [is_mapping |-> TRUE,
       metadata |-> [recipe_name |-> RecipeNames[n],
                     source |-> IF kind = "reprint" THEN "web" ELSE "cookbook",
                     difficulty_level |-> IF kind = "fresh" THEN "Easy" ELSE "Hard"],
       page_content |-> [text |-> <<kind, i>>, len |-> PassageLengths[i]]]

LongDocLists ==
  UNION { {[i \in 1..n |-> PassageAt(i, f[i])] : f \in [1..n -> {"fresh", "again", "reprint"}]} :
          n \in 0..MaxPassages }

\* One call of get_response on a plain input: what it builds depends on the
\* passage list only.
NextPassages ==
  \/ GetResponse({<<"d", "i", "n", "n", "e", "r">>}, 1)
  \/ Enhancing
  \/ Retrieving(LongDocLists)
  \/ Extracting
  \/ Formatting

SpecPassages == Init /\ [][NextPassages]_vars

\* One search over a long list of retrieved documents: the store holds the
\* four recipes in some rotation, the query asks for up to 20 of them.
StoredHits == <<H_Pie, H_Cake, H_Soup, H_Fry>>

LongHitLists ==
  {[i \in 1..n |-> StoredHits[((i + o) % Len(StoredHits)) + 1]] :
     n \in 0..MaxLongHits, o \in 1..Len(StoredHits)}

LongSearchCalls ==
  {[args |-> [results |-> Results(h), filters |-> f, cooking_time |-> t],
    out |-> search_recipes(Results(h), f, t)] :
     h \in LongHitLists, f \in FilterOptions, t \in {DefaultCookingTime, 5}}

NextSearch == SearchRecipes(LongSearchCalls, 1)

SpecSearch == Init /\ [][NextSearch]_vars

\* The document manager: adds under explicit and generated ids, deletions
\* and constructions.
ExplicitIds == {"recipe_0", "recipe_1", "recipe_2", "pie"}

NextStore ==
  \/ AddRecipe(ExplicitIds, MaxStoreCalls)
  \/ DeleteCollection(MaxStoreCalls)
  \/ NewManager(MaxStoreCalls)

SpecStore == Init /\ [][NextStore]_vars

\* The chat and clear requests of the web service; the passages retrieved
\* are documents of the collection, as add_recipe stored them or with the
\* source and recipe name that get_response reads.
StoredDocLists == ListsUpTo({P_Stored, P_StoredCake, P_Blog, P_BlogBest}, MaxDocs)

NextApp ==
  \/ GetResponse({<<"d", "i", "n", "n", "e", "r">>}, MaxAppCalls)
  \/ Enhancing
  \/ Retrieving(StoredDocLists)
  \/ Extracting
  \/ Formatting
  \/ ClearConversation(MaxAppCalls)

SpecApp == Init /\ [][NextApp]_vars

\* The filter decision for every recipe_info, filter list and time limit.
NextFilters == ApplyFilters(FilterInfos, FilterChoices, {DefaultCookingTime, 60})

SpecFilters == Init /\ [][NextFilters]_vars

(***************************************************************************)
(* Properties.                                                             *)
(***************************************************************************)
\* The text is empty or whitespace only.
BlankText(s) == \A i \in 1..Len(s) : s[i] \in Whitespace

Range(seq) == {seq[i] : i \in 1..Len(seq)}

\* The last n elements of seq (all of it when it is shorter).
LastN(seq, n) ==
  IF Len(seq) > n THEN SubSeq(seq, Len(seq) - n + 1, Len(seq)) ELSE seq

\* The last get_response call has returned.
Returned == last_op = "get_response" /\ pc = "idle"

ErrorReturned == Returned /\ response.error # None

\* The last get_response call ran the pipeline and returned its result.
SuccessReturned ==
  Returned /\ ~BlankText(user_input) /\ response.error = None

StageOrder == <<"enhancing", "retrieving", "extracting", "formatting">>

ResponseFields == {"answer", "sources", "recipes", "suggestions", "error"}

SubstitutionPrompt == "What can I substitute if I'm missing an ingredient?"

\* C1: a get_response call that returns the error response leaves the
\* conversation memory exactly as it was when the call was made, whichever
\* stage raised.
C1_MemoryOnlyOnSuccess == ErrorReturned => messages = mem_before

\* C2: for an empty or whitespace-only input get_response returns the fixed
\* greeting response (no sources, no recipes, the 3 fixed suggestions, no
\* error) at once: no stage runs, no retrieval or generative call is made and
\* the memory is unchanged.
C2_BlankInputGreeting ==
  (last_op = "get_response" /\ BlankText(user_input)) =>
    /\ pc = "idle"
    /\ ~escaped
    /\ response.answer = PlainAnswer(GreetingText)
    /\ response.sources = <<>>
    /\ response.recipes = <<>>
    /\ response.suggestions = <<Sugg("What ingredients do you have?"),
                                Sugg("Show me quick dinner recipes"),
                                Sugg("I need a vegetarian meal")>>
    /\ response.error = None
    /\ stages = <<>>
    /\ retrieval_calls = 0
    /\ llm_calls = 0
    /\ messages = mem_before

\* A whitespace-only input was answered while the memory held an exchange.
C2_Witness ==
  /\ Returned
  /\ user_input # <<>>
  /\ BlankText(user_input)
  /\ mem_before # <<>>
  /\ response = GreetingResponse

\* The messages of the exchanges numbered ns, in order.
RECURSIVE ExchangeMessages(_)
ExchangeMessages(ns) ==
  IF ns = <<>> THEN <<>>
  ELSE <<[type |-> "human", exchange |-> Head(ns)],
         [type |-> "ai", exchange |-> Head(ns)]>> \o ExchangeMessages(Tail(ns))

\* C3: the window handed to the prompt holds at most 8 exchanges, and they
\* are the most recent (up to 8) exchanges recorded since the last clear, in
\* their original order.
C3_WindowLastEight ==
  /\ Len(buffer_window(messages)) <= 2 * 8
  /\ buffer_window(messages) = ExchangeMessages(LastN(recorded, 8))
  /\ Len(chat_history) <= 2 * 8

\* A 9th exchange was recorded and the oldest one left the window.
C3_Witness ==
  /\ Len(recorded) > 8
  /\ buffer_window(messages)[1].exchange = recorded[2]
  /\ buffer_window(messages) # messages

\* C4: clear_memory does not raise, returns True and leaves the window empty,
\* whatever the memory held; a get_response call that follows it hands an
\* empty chat history to the chain.
C4_ClearMemorySafe ==
  /\ last_op = "clear_memory" =>
       /\ clear_result = TRUE
       /\ ~escaped
       /\ buffer_window(messages) = <<>>
  /\ (last_op = "get_response" /\ prev_op = "clear_memory"
      /\ "retrieving" \in Range(stages)) =>
       chat_history = <<>>

\* An exchange was recorded, the memory cleared, and the next get_response
\* call has invoked the chain.
C4_Witness ==
  /\ last_op = "get_response"
  /\ prev_op = "clear_memory"
  /\ "retrieving" \in Range(stages)
  /\ exchanges > Len(recorded)

\* C5: no exception leaves get_response or search_recipes: get_response
\* returns an object with the five fields answer, sources, recipes,
\* suggestions, error, and search_recipes returns a list, the empty one when
\* the store query or an internal step failed.
C5_EntryPointsNeverRaise ==
  /\ ~escaped
  /\ Returned => DOMAIN response = ResponseFields
  /\ last_op = "search_recipes" =>
       /\ DOMAIN search_result = 1..Len(search_result)
       /\ (search_error # None \/ search_args.results.is_none) =>
            search_result = <<>>

\* search_recipes caught an exception raised while it built a card.
C5_Witness ==
  /\ last_op = "search_recipes"
  /\ search_error # None
  /\ search_args.results.hits # <<>>
  /\ prev_op = "get_response"

\* C6: for a non-blank input the stages run in the order enhancing,
\* retrieving, extracting, formatting; a stage that raises ends the call with
\* the error response (apology, no recipes, no sources, 3 generic suggestions,
\* a non-null error) and no later stage runs; a call that returns without
\* error has run all four.
C6_StagesInOrder ==
  (last_op = "get_response" /\ ~BlankText(user_input)) =>
    /\ stages = Take(StageOrder, Len(stages))
    /\ pc # "idle" => (failed_stage = "" /\ pc = StageOrder[Len(stages) + 1])
    /\ (pc = "idle" /\ response.error = None) =>
         (failed_stage = "" /\ stages = StageOrder)
    /\ (pc = "idle" /\ response.error # None) =>
         /\ stages # <<>>
         /\ failed_stage = stages[Len(stages)]
         /\ response.answer = PlainAnswer(ApologyText)
         /\ response.recipes = <<>>
         /\ response.sources = <<>>
         /\ response.suggestions = <<Sugg("Try asking about a specific ingredient"),
                                     Sugg("Search for a cuisine type"),
                                     Sugg("Ask for cooking tips")>>

\* The extracting stage raised after recipes had been extracted.
C6_Witness ==
  /\ ErrorReturned
  /\ failed_stage = "extracting"
  /\ recipes_info # <<>>
  /\ response.recipes = <<>>

\* C7: every response of get_response carries exactly 3 suggestions.
C7_ThreeSuggestions == Returned => Len(response.suggestions) = 3

\* A success response on the generic branch (no signal, fewer than 2 recipes).
C7_Witness ==
  /\ SuccessReturned
  /\ Len(response.recipes) < 2
  /\ response.suggestions = GenericSuggestions

\* C8: for a query that contains an ingredient-intent word ("have", "using",
\* "with" or "got") a successful get_response returns the substitution
\* prompt among its suggestions.
C8_IngredientWordsGetSubstitution ==
  (SuccessReturned /\ AnyIn(IngredientWords, Lower(user_input))) =>
    \E i \in 1..Len(response.suggestions) :
      response.suggestions[i].text = SubstitutionPrompt

\* C9: without an ingredient signal a quick/fast/easy query gets the
\* time-bounded prompts whatever the number of recipes; with neither signal
\* the comparison prompts naming recipes[0] are returned exactly when at
\* least 2 recipes were extracted, and the 3 generic prompts otherwise.
C9_SuggestionPriority ==
  SuccessReturned =>
    LET query == Lower(user_input)
        ingredient == AnyIn(IngredientWords, query)
        quick == AnyIn(<<W_quick, W_fast, W_easy>>, query)
        comparison ==
          <<[text |-> "Tell me more about ", arg |-> response.recipes[1].name],
            Sugg("Compare the difficulty of these recipes"),
            Sugg("Which recipe has the highest rating?")>>
    IN  /\ (quick /\ ~ingredient) => response.suggestions = TimeSuggestions
        /\ (~quick /\ ~ingredient /\ Len(response.recipes) >= 2) =>
             response.suggestions = comparison
        /\ (~quick /\ ~ingredient /\ Len(response.recipes) < 2) =>
             response.suggestions = GenericSuggestions

\* The text the enhancement appended to the input.
Appended == SubSeq(processed_query, Len(user_input) + 1, Len(processed_query))

\* C10: for an input with an ingredient-intent word the enhanced query
\* starts with the input unchanged (case included) and the keyword
\* "recipe ingredients" is appended exactly once.
C10_EnhancedKeepsOriginal ==
  ("enhancing" \in Range(stages) /\ AnyIn(IngredientWords, Lower(user_input))) =>
    /\ Len(processed_query) > Len(user_input)
    /\ Take(processed_query, Len(user_input)) = user_input
    /\ StartsWith(Appended, <<" ">> \o K_recipe_ingredients)
    /\ Occurrences(Appended, K_recipe_ingredients) = 1

\* An input in mixed case with two ingredient-intent words was enhanced.
C10_Witness ==
  /\ "enhancing" \in Range(stages)
  /\ user_input # Lower(user_input)
  /\ Contains(Lower(user_input), W_got)
  /\ Contains(Lower(user_input), W_with)

\* The signal classes in their fixed order, each with its keyword.
SignalClasses ==
  <<[words |-> IngredientWords, keyword |-> K_recipe_ingredients],
    [words |-> TimeWords, keyword |-> K_cooking_time],
    [words |-> DietaryWords, keyword |-> K_dietary],
    [words |-> cuisines, keyword |-> K_cuisine]>>

\* The classes of which the lower-cased input contains a signal substring.
DetectedClasses ==
  {c \in 1..4 : AnyIn(SignalClasses[c].words, Lower(user_input))}

\* C11: the enhanced query is the input itself when no signal class is
\* detected; otherwise the input followed by one " keyword" per detected
\* class and nothing else, each keyword once, in the order recipe
\* ingredients, cooking time, dietary, cuisine.  It is a function of the
\* input alone.
C11_EnhancementBySignalClass ==
  "enhancing" \in Range(stages) =>
    /\ DetectedClasses = {} => processed_query = user_input
    /\ DetectedClasses # {} =>
         /\ Take(processed_query, Len(user_input)) = user_input
         /\ \A c \in 1..4 :
              Occurrences(Appended, SignalClasses[c].keyword) =
                IF c \in DetectedClasses THEN 1 ELSE 0
         /\ \A c, d \in DetectedClasses :
              c < d => Find(Appended, SignalClasses[c].keyword)
                         < Find(Appended, SignalClasses[d].keyword)
         /\ Len(Appended) =
              (IF 1 \in DetectedClasses THEN 1 + Len(K_recipe_ingredients) ELSE 0)
              + (IF 2 \in DetectedClasses THEN 1 + Len(K_cooking_time) ELSE 0)
              + (IF 3 \in DetectedClasses THEN 1 + Len(K_dietary) ELSE 0)
              + (IF 4 \in DetectedClasses THEN 1 + Len(K_cuisine) ELSE 0)

\* An input with three signals (time, dietary, cuisine) was enhanced.
C11_Witness ==
  /\ "enhancing" \in Range(stages)
  /\ Cardinality(DetectedClasses) >= 3
  /\ processed_query # user_input

\* The name under which extraction files a passage.
PassageName(doc) ==
  Get(doc.metadata, "recipe_name", Get(doc.metadata, "title", "Unknown Recipe"))

\* The positions, among the first 6, of the well-formed passages that are the
\* first of their name.
FirstOfName(docs) ==
  {i \in 1..Len(docs) :
     /\ i <= 6
     /\ docs[i].is_mapping
     /\ \A j \in 1..(i - 1) :
          docs[j].is_mapping => PassageName(docs[j]) # PassageName(docs[i])}

\* C12: the extracted recipes are, in retrieval order, one entry for each
\* name occurring among the first 6 passages, built from the first passage
\* of that name; passages after the 6th contribute nothing.
C12_ExtractionFirstSixFirstSeen ==
  "extracting" \in Range(stages) =>
    LET firsts == FirstOfName(source_docs)
    IN  /\ Len(recipes_info) = Cardinality(firsts)
        /\ \A i, j \in 1..Len(recipes_info) :
             i # j => recipes_info[i].name # recipes_info[j].name
        /\ \A j \in 1..Len(recipes_info) :
             \E i \in firsts :
               /\ Cardinality({h \in firsts : h < i}) = j - 1
               /\ recipes_info[j].name = PassageName(source_docs[i])
               /\ recipes_info[j].instructions = source_docs[i].page_content

\* Seven passages were retrieved: a repeated name among the first six was
\* dropped, and the seventh, a new name, was not looked at.
C12_Witness ==
  /\ "extracting" \in Range(stages)
  /\ Len(source_docs) = 7
  /\ Len(recipes_info) = 5
  /\ \A j \in 1..Len(recipes_info) :
       recipes_info[j].name # PassageName(source_docs[7])

\* C13: when the chain has answered, a malformed passage among the
\* retrieved ones does not fail the call: get_response returns a success
\* response (error = null).
C13_MalformedPassageSkipped ==
  (Returned /\ "extracting" \in Range(stages)
   /\ \E i \in 1..Len(source_docs) : ~source_docs[i].is_mapping) =>
    response.error = None

\* The (source, recipe name) pair of a passage.
SourcePair(doc) ==
  <<Get(doc.metadata, "source", "Recipe Database"),
    Get(doc.metadata, "recipe_name", "Unknown Recipe")>>

\* The (source, recipe name) pair of an entry of the source list.
EntryPair(entry) == <<entry.source, entry.recipe_name>>

\* The positions at which a pair occurs, and the first of them.
PositionsOf(docs, pair) == {i \in 1..Len(docs) : SourcePair(docs[i]) = pair}

FirstPositionOf(docs, pair) ==
  CHOOSE i \in PositionsOf(docs, pair) : \A h \in PositionsOf(docs, pair) : i <= h

\* The preview is the content itself up to 150 characters, else its first 150
\* characters and "...".
PreviewOf(preview, content) ==
  /\ preview.text = content.text
  /\ preview.chars <= 153
  /\ IF content.len <= 150
       THEN preview.chars = content.len /\ ~preview.ellipsis
       ELSE preview.chars = 150 + 3 /\ preview.ellipsis

\* C14: the source list has at most 5 entries, no two with the same
\* (source, recipe name) pair; each entry is built from the first passage
\* with its pair and the entries are in the order of those passages; every
\* preview has at most 153 characters and is the content, cut at 150
\* characters plus "..." when it is longer.
C14_SourcesCappedDistinctOrdered ==
  ("extracting" \in Range(stages) /\ failed_stage = "") =>
    /\ Len(unique_sources) <= 5
    /\ \A i, j \in 1..Len(unique_sources) :
         i # j => EntryPair(unique_sources[i]) # EntryPair(unique_sources[j])
    /\ \A j \in 1..Len(unique_sources) :
         /\ PositionsOf(source_docs, EntryPair(unique_sources[j])) # {}
         /\ PreviewOf(unique_sources[j].content_preview,
                      source_docs[FirstPositionOf(
                        source_docs, EntryPair(unique_sources[j]))].page_content)
    /\ \A i, j \in 1..Len(unique_sources) :
         i < j => FirstPositionOf(source_docs, EntryPair(unique_sources[i]))
                    < FirstPositionOf(source_docs, EntryPair(unique_sources[j]))

\* Seven passages with six different pairs: one repeated pair was dropped,
\* the sixth pair fell to the cap, and a content of exactly 150 characters
\* was kept whole next to one that was cut.
C14_Witness ==
  /\ "extracting" \in Range(stages)
  /\ failed_stage = ""
  /\ Len(source_docs) = 7
  /\ Cardinality({SourcePair(source_docs[i]) : i \in 1..7}) = 6
  /\ Len(unique_sources) = 5
  /\ \E j \in 1..5 : /\ unique_sources[j].content_preview.chars = 150
                     /\ ~unique_sources[j].content_preview.ellipsis
  /\ \E j \in 1..5 : unique_sources[j].content_preview.ellipsis

\* "A {cuisine} {category} that's {difficulty} difficult to prepare."
TemplatedDescription(recipe) ==
  [kind |-> "fallback", cuisine |-> recipe.cuisine,
   category |-> recipe.category, difficulty |-> recipe.difficulty]

\* C15: whichever description calls fail, the call returns a success
\* response with all the extracted recipes; a listed recipe whose call failed
\* carries the templated description of its own cuisine, category and
\* difficulty, and every other listed recipe its generated description.
C15_DescriptionFailureFallsBack ==
  (Returned /\ "formatting" \in Range(stages)) =>
    /\ response.error = None
    /\ ~escaped
    /\ response.recipes = recipes_info
    /\ llm_failures \subseteq 1..Len(response.answer.entries)
    /\ \A i \in 1..Len(response.answer.entries) :
         /\ response.answer.entries[i].name = recipes_info[i].name
         /\ IF i \in llm_failures
              THEN response.answer.entries[i].description
                     = TemplatedDescription(recipes_info[i])
              ELSE response.answer.entries[i].description.kind = "generated"

\* Of two listed recipes the description call failed for the first only.
C15_Witness ==
  /\ Returned
  /\ "formatting" \in Range(stages)
  /\ llm_failures = {1}
  /\ Len(response.answer.entries) = 2
  /\ response.answer.entries[1].description.difficulty
       # response.answer.entries[2].description.difficulty

\* C16: the formatted answer starts with the generative answer unchanged;
\* the summary block is there exactly when more than one recipe was
\* extracted; it announces their number and lists the first min(3, n) of them,
\* numbered 1, 2, 3 in extraction order; one description call is made per
\* listed recipe and none otherwise.
C16_SummaryBlock ==
  (Returned /\ "formatting" \in Range(stages)) =>
    LET entries == response.answer.entries
        n == Len(recipes_info)
    IN  /\ response.answer.base = answer
        /\ (entries # <<>>) <=> (n > 1)
        /\ response.answer.found = IF n > 1 THEN n ELSE 0
        /\ n > 1 => Len(entries) = IF n < 3 THEN n ELSE 3
        /\ \A i \in 1..Len(entries) :
             /\ entries[i].index = i
             /\ entries[i].name = recipes_info[i].name
        /\ llm_calls = Len(entries)

\* Six recipes were extracted and the first three listed.
C16_Witness ==
  /\ Returned
  /\ "formatting" \in Range(stages)
  /\ Len(recipes_info) = 6
  /\ Len(response.answer.entries) = 3
  /\ llm_calls = 3

\* The first word of a numeric field is a decimal numeral.
NumberIn(info, key) ==
  /\ key \in DOMAIN info
  /\ SplitWS(info[key]) # <<>>
  /\ IsInt(SplitWS(info[key])[1])

CountIn(info, key) == ToInt(SplitWS(info[key])[1])

\* A numeric field is present and is not a number: evaluating the filters
\* on this recipe raises, and the recipe is then let through.
HasBadNumber(info) ==
  \/ "cooking_time" \in DOMAIN info /\ ~NumberIn(info, "cooking_time")
  \/ "servings" \in DOMAIN info /\ ~NumberIn(info, "servings")

InBucket(tag, n) ==
  CASE tag = "servings-1-2" -> 1 <= n /\ n <= 2
    [] tag = "servings-3-4" -> 3 <= n /\ n <= 4
    [] tag = "servings-5+" -> 5 <= n

\* C18: with a servings filter active, a recipe that passes (without an
\* evaluation error) has a parsed servings count, and the count lies in a
\* requested bucket: 1 to 2, 3 to 4, or 5 and more.
C18_ServingsInsideBucket ==
  (/\ filter_call.called
   /\ ~filter_call.filters.is_none
   /\ filter_call.filters.items \cap ServingTags # {}
   /\ ~HasBadNumber(filter_call.info)
   /\ filter_call.passed) =>
    /\ NumberIn(filter_call.info, "servings")
    /\ \E tag \in filter_call.filters.items \cap ServingTags :
         InBucket(tag, CountIn(filter_call.info, "servings"))

TagText(tag) ==
  CASE tag = "breakfast" -> S_breakfast
    [] tag = "lunch" -> S_lunch
    [] tag = "dinner" -> S_dinner
    [] tag = "dessert" -> S_dessert
    [] tag = "snacks" -> S_snacks
    [] tag = "main" -> S_main

\* The type of the recipe matches one of the tags.
MatchesOneOf(info, tags) ==
  \E tag \in tags : Contains(Lower(Get(info, "type", <<>>)), TagText(tag))

IsNonVegType(info) == Contains(Lower(Get(info, "type", <<>>)), S_nonveg)

IsVegType(info) ==
  Contains(Lower(Get(info, "type", <<>>)), S_veg) /\ ~IsNonVegType(info)

StoredOnly(hits) ==
  \A i \in 1..Len(hits) : {"name", "rating"} \subseteq DOMAIN hits[i].metadata

SearchedWith(items) ==
  /\ last_op = "search_recipes"
  /\ ~search_args.filters.is_none
  /\ search_args.filters.items = items
  /\ StoredOnly(search_args.results.hits)

\* The card at position i of the result is the card of the retrieved document
\* at position at[i].
CardsOf(cards, hits, at) ==
  /\ Len(cards) = Len(at)
  /\ \A i \in 1..Len(cards) :
       /\ cards[i].name = hits[at[i]].metadata["name"]
       /\ cards[i].rating = hits[at[i]].metadata["rating"]

\* C21: with filters = [] the result of search_recipes is the list of the
\* retrieved documents in retrieval order, cut after the tenth: no document
\* is left out for its servings, its rating or the cooking time limit.
C21_EmptyFiltersReturnAll ==
  SearchedWith({}) =>
    LET hits == search_args.results.hits
        n == IF Len(hits) < ResultLimit THEN Len(hits) ELSE ResultLimit
    IN  /\ search_error = None
        /\ CardsOf(search_result, hits, [i \in 1..n |-> i])

C21_Witness ==
  /\ SearchedWith({})
  /\ Len(search_args.results.hits) > ResultLimit
  /\ Len(search_result) = ResultLimit
  /\ search_args.cooking_time < DefaultCookingTime

\* The elements of a set of numbers in increasing order.
RECURSIVE Ascending(_)
Ascending(S) ==
  IF S = {} THEN <<>>
  ELSE LET m == CHOOSE x \in S : \A y \in S : x <= y
       IN  <<m>> \o Ascending(S \ {m})

\* Evaluating the filters on the recipe raises: no earlier check rejects it
\* and a check reads a number that is not an integer.
EvaluationRaises(info, filters, cooking_time) ==
  LET checks == filter_checks(info, filters, cooking_time)
  IN  /\ ~filters_falsy(filters)
      /\ \E i \in 1..Len(checks) :
           /\ checks[i] = "raise"
           /\ \A j \in 1..(i - 1) : checks[j] = "next"

\* The retrieved documents whose filter evaluation raises, and those that a
\* search over the document alone returns.
RaisingHits ==
  {i \in 1..Len(search_args.results.hits) :
     EvaluationRaises(_parse_recipe_document(search_args.results.hits[i].doc),
                      search_args.filters, search_args.cooking_time)}

KeptAlone ==
  {i \in 1..Len(search_args.results.hits) :
     search_recipes(Results(<<search_args.results.hits[i]>>),
                    search_args.filters, search_args.cooking_time).result # <<>>}

\* C22: a recipe whose filter evaluation raises is let through and the batch
\* goes on: the result holds, in retrieval order and up to the cap, the
\* raising recipes and exactly those other recipes that a search over the
\* recipe alone returns.
C22_FilterErrorKeepsBatch ==
  (/\ last_op = "search_recipes"
   /\ ~search_args.filters.is_none
   /\ StoredOnly(search_args.results.hits)) =>
    /\ search_error = None
    /\ RaisingHits \subseteq KeptAlone
    /\ CardsOf(search_result, search_args.results.hits,
               Take(Ascending(KeptAlone), ResultLimit))

C22_Witness ==
  /\ last_op = "search_recipes"
  /\ ~search_args.filters.is_none
  /\ RaisingHits # {}
  /\ KeptAlone \ RaisingHits # {}
  /\ (1..Len(search_args.results.hits)) \ KeptAlone # {}
  /\ \E i \in RaisingHits, j \in 1..Len(search_result) :
       search_result[j].name = search_args.results.hits[i].metadata["name"]

\* C23: the query handed to the retriever is determined by the user input
\* alone: it is the enhanced input, and nothing of the conversation memory
\* is drawn into it.
C23_RetrievalQueryIgnoresMemory ==
  retrieval_calls > 0 =>
    retrieval_query = [text |-> _enhance_user_query(user_input),
                       drawn_from |-> <<>>]

\* C24: a delete_collection call that directly follows another one (nothing
\* was written in between) completes and reports what the first call
\* reported: success.
C24_DeleteIdempotent ==
  (/\ store_call.op = "delete_collection"
   /\ store_call.prev_op = "delete_collection") =>
    /\ store_call.result = store_call.prev_result
    /\ store_call.result = TRUE

\* C26: the first chat request after a clear request is answered with an
\* empty chat history: the chain loads no message from the memory.
C26_ClearEmptiesChatMemory ==
  (/\ last_op = "get_response"
   /\ prev_op = "clear_conversation"
   /\ retrieval_calls > 0) =>
    chat_history = <<>>

\* C27: the id add_recipe generates for an omitted id is not an id the
\* collection already holds, and the document is stored under it.
C27_GeneratedIdFresh ==
  (/\ store_call.op = "add_recipe"
   /\ store_call.recipe_id = None
   /\ store_call.id # None) =>
    /\ store_call.id \notin store_call.ids_before
    /\ store_call.result = TRUE
    /\ collection.ids = store_call.ids_before \cup {store_call.id}

\* The sections of a stored document, before servings and description.
SectionsOf(doc) == parse_sections(EmptyInfo, SplitOn(doc, S_blankline))

\* C25: the card of a document that has an Instructions section carries the
\* first 20 words of the instructions followed by "...", whether or not the
\* instructions mention servings and however the mention is capitalised.
\* (With filters = [] the card at position i is that of document i.)
C25_CardDescriptionFromInstructions ==
  SearchedWith({}) =>
    \A i \in 1..Len(search_result) :
      "instructions" \in DOMAIN SectionsOf(search_args.results.hits[i].doc) =>
        search_result[i].description =
          description_of(SectionsOf(search_args.results.hits[i].doc))

\* C28: a search without a filters argument (None) returns what the search
\* with filters = [] returns on the same retrieved documents: their cards,
\* cut after the tenth.
C28_NoneFiltersLikeEmpty ==
  (/\ last_op = "search_recipes"
   /\ search_args.filters.is_none
   /\ StoredOnly(search_args.results.hits)) =>
    /\ search_result =
         search_recipes(search_args.results, FilterList({}),
                        search_args.cooking_time).result
    /\ search_error = None

\* C29: passages of documents that add_recipe stored yield one RecipeInfo
\* entry per stored name among the first 6 passages, carrying that name.
C29_StoredNamesExtracted ==
  (/\ last_op = "get_response"
   /\ "extracting" \in Range(stages)
   /\ \A i \in 1..Len(source_docs) :
        source_docs[i].is_mapping /\ "name" \in DOMAIN source_docs[i].metadata) =>
    LET first == Take(source_docs, ExtractLimit)
        names == {first[i].metadata["name"] : i \in 1..Len(first)}
    IN  /\ Len(recipes_info) = Cardinality(names)
        /\ {recipes_info[i].name : i \in 1..Len(recipes_info)} = names

\* C30: passages with different (source, recipe name) pairs are not merged:
\* the pair of every passage that fewer than 5 different pairs precede has
\* an entry in the source list.
C30_DistinctPairsKept ==
  ("extracting" \in Range(stages) /\ failed_stage = "") =>
    \A j \in 1..Len(source_docs) :
      Cardinality({SourcePair(source_docs[h]) : h \in 1..(j - 1)}) < SourceLimit =>
        \E e \in 1..Len(unique_sources) :
          EntryPair(unique_sources[e]) = SourcePair(source_docs[j])

=============================================================================
